---- MODULE Spec2Model ----
(***************************************************************************)
(* A model of fsleyes.gl.textures.rendertexturestack.RenderTextureStack:   *)
(* a stack of off-screen RenderTexture instances, one per slice of a       *)
(* GLObject, refreshed one at a time by a callback that is run on the      *)
(* fsl.utils.async idle loop.                                              *)
(*                                                                         *)
(* Python lists are sequences; a Python index i is the TLA+ index i + 1,   *)
(* and a negative Python index i addresses element len + i.  Positions     *)
(* along the Z axis are integers in the unit of the display bounds, and    *)
(* the quotients the code computes in floating point are kept as exact     *)
(* fractions.  An operation that raises leaves the name of the exception   *)
(* in err, with the assignments made before the raise kept.                *)
(*                                                                         *)
(* The module also models fsleyes.colourmaps.LookupTable: a list of        *)
(* LutLabels kept in ascending order of value, with its saved flag and the *)
(* notifications it sends.  A label is modelled by its value, and a value  *)
(* by its Python type and twice its number, so that 1, 1.0 and 1.5 are     *)
(* told apart and compared as Python compares them.                        *)
(*                                                                         *)
(* Three pieces of the user interface are modelled as well, each by the    *)
(* fields its handlers read and write: the movie loop of                   *)
(* fsleyes.views.canvaspanel.CanvasPanel with its callbacks on the idle    *)
(* loop, the Editor change groups that the mouse handlers of               *)
(* fsleyes.profiles.orthoeditprofile.OrthoEditProfile start and end, and   *)
(* the property listeners of                                               *)
(* fsleyes.controls.overlayinfopanel.OverlayInfoPanel.                     *)
(***************************************************************************)
EXTENDS Integers, Sequences, FiniteSets, TLC

VARIABLES
    textures,          \* self.__textures: the RenderTexture ids, in slot order
    textureDirty,      \* self.__textureDirty
    lastDrawnTexture,  \* self.__lastDrawnTexture: None or <<index>>
    updateQueue,       \* self.__updateQueue
    axes,              \* None, or <<xax, yax, zax>> once setAxes has run
    zmin,              \* self.__zmin
    zmax,              \* self.__zmax
    idleQueue,         \* the tasks passed to async.idle and not yet run
    rts,               \* every RenderTexture ever constructed, by id
    glLog,             \* the texture/GL operations of the last operation
    err,               \* the exception the last operation raised, or NoError
    lastOp,            \* the last operation and its inputs
    sinceRefreshAll,   \* bookkeeping since the last __refreshAllTextures
    labels,            \* LookupTable.__labels: the label values, in list order
    saved,             \* LookupTable.__saved
    notified,          \* the topics the last LookupTable call notified on
    lutErr,            \* the exception the last LookupTable call raised
    lutOp,             \* the last LookupTable call and its argument
    lutFile,           \* the file that save wrote: its lines, if it exists
    loaded,            \* the LookupTable constructed from lutFile
    movieMode,         \* CanvasPanel.movieMode
    movieAxis,         \* CanvasPanel.movieAxis
    movieRunning,      \* CanvasPanel.__movieRunning
    panelDestroyed,    \* CanvasPanel.destroyed()
    selectedOverlay,   \* DisplayContext.getSelectedOverlay(), or None
    volume,            \* opts.volume of the selected overlay
    voxel,             \* opts.getVoxel(): the voxel at the location
    idleTimeout,       \* the value last given to async.setIdleTimeout
    movieIdle,         \* the movie callbacks waiting on the idle loop
    movieOp,           \* the last step of the movie loop
    currentOverlay,    \* OrthoEditProfile.__currentOverlay
    editors,           \* the keys of OrthoEditProfile.__editors
    openGroups,        \* per Editor, the change groups started and not ended
    mouseHeld,         \* None, or <<mode>> while the left button is down
    pressed,           \* the Editor the held press started a group on
    editOp,            \* the last handler of the OrthoEditProfile
    infoSelected,      \* DisplayContext.getSelectedOverlay(), or None
    infoCurrent,       \* OverlayInfoPanel.__currentOverlay/Display/Opts
    infoListeners,     \* the listeners registered under the panel's name
    optsGen,           \* per overlay, the generation of its DisplayOpts
    infoDestroyed,     \* whether OverlayInfoPanel.destroy has run
    infoOp             \* the last call of the OverlayInfoPanel

\* the fields of the LookupTable, the record of its last call, the file it
\* was saved to and the table loaded from that file
lutVars == <<labels, saved, notified, lutErr, lutOp, lutFile, loaded>>

\* the fields of the RenderTextureStack and the record of its last call
stackVars == <<textures, textureDirty, lastDrawnTexture, updateQueue, axes,
               zmin, zmax, idleQueue, rts, glLog, err, lastOp,
               sinceRefreshAll>>

\* the fields of the CanvasPanel that the movie loop uses, the callbacks it
\* has on the idle loop and the record of its last step
movieVars == <<movieMode, movieAxis, movieRunning, panelDestroyed,
               selectedOverlay, volume, voxel, idleTimeout, movieIdle,
               movieOp>>

\* the fields of the OrthoEditProfile that its mouse handlers use, the
\* change groups of its Editors and the record of its last handler
editVars == <<currentOverlay, editors, openGroups, mouseHeld, pressed,
              editOp>>

\* the fields of the OverlayInfoPanel, the listeners it has registered and
\* the record of its last call
infoVars == <<infoSelected, infoCurrent, infoListeners, optsGen,
              infoDestroyed, infoOp>>

\* the variables of the panels and profiles
panelVars == <<movieVars, editVars, infoVars>>

vars == <<textures, textureDirty, lastDrawnTexture, updateQueue, axes, zmin,
          zmax, idleQueue, rts, glLog, err, lastOp, sinceRefreshAll,
          labels, saved, notified, lutErr, lutOp, lutFile, loaded,
          panelVars>>

----------------------------------------------------------------------------
(* Bounds of the model *)

\* the GLObject's data resolution along any axis is in 1 .. MaxRes
MaxRes == 2

\* at most this many RenderTextures are constructed in a run
MaxTextures == 3

\* an update is not signalled while this many loop callbacks are queued
MaxPendingLoops == 2

\* the data resolution along any axis, where only the refresh order is studied
MaxSlots == 6

\* and the number of loop callbacks queued there
MaxQueuedLoops == 3

\* the data resolution along any axis, where the refresh queue is followed
\* through the idle loop
MaxQueueSlots == 5

\* a LookupTable holds at most this many labels
MaxLabels == 3

\* the data resolution along any axis, where the mapping between Z positions
\* and texture indices is studied
MaxMapRes == 4

\* the startMovie callbacks that wait on the idle loop at a time
MaxPendingStarts == 2

\* the movie-frame updates scheduled at a time, beyond which the idle loop
\* runs no further movie callback
MaxMovieChains == 2

\* the length of the selected overlay along the movie axis
MaxMovieFrames == 2

\* the change groups left open on an Editor at a time
MaxOpenGroups == 2

\* the times the overlayType of an overlay is changed
MaxOptsGen == 2

----------------------------------------------------------------------------
(* Program constants, RenderTextureStack.__init__ *)

maxNumTextures     == 256
defaultNumTextures == 64

None    == <<>>
NoError == "none"

\* the exception a failing RenderTexture.setSize raises
SizeError == "GLError"

\* the GLObject and the GL at a call: whether globj.ready() holds, and
\* whether a call of RenderTexture.setSize returns
Conditions == {[ready |-> TRUE,  sizeOk |-> TRUE],
               [ready |-> FALSE, sizeOk |-> TRUE],
               [ready |-> TRUE,  sizeOk |-> FALSE]}

\* the axis pairs a canvas displays
AxisPairs == {<<0, 1>>, <<1, 2>>}

\* GLObject.getDisplayBounds(): (lo, hi), indexed by axis
GLObjLo == <<0, 0, -300>>
GLObjHi == <<600, 600, 300>>

\* GLObject.getDataResolution(xax, yax): a resolution per axis
Resolutions == {<<r, r, r>> : r \in 1 .. MaxRes}

\* the same, where only the refresh order is studied
SlotResolutions == {<<r, r, r>> : r \in 1 .. MaxSlots}

\* the Z positions at which a slice is requested
ZPositions == {-700, 1, 250, 700}

\* the same, where only the refresh order is studied
SlotPositions == {-100, 50, 100, 200, 300, 400, 500, 550, 700}

\* the same, where the refresh queue is followed through the idle loop
QueueResolutions == {<<r, r, r>> : r \in 1 .. MaxQueueSlots}
QueuePositions   == {-100, 50, 250, 350, 550}

\* the resolutions and the Z positions where the mapping is studied: the
\* positions around both ends of both display ranges, the edges of the
\* slices, and positions far outside
MapResolutions == {<<r, r, r>> : r \in 1 .. MaxMapRes}
MapPositions ==
    {b + d : b \in {-300, 0, 300, 600},
             d \in {-7, -6, -5, -2, -1, 0, 1, 2, 5, 6, 7}}
    \cup {-1000, -900, -600, -450, -180, -150, -100, -60, 60, 100, 120, 150,
          180, 200, 240, 400, 450, 480, 750, 900, 1200, 1300}

----------------------------------------------------------------------------
(* Python helpers *)

Abs(x) == IF x < 0 THEN -x ELSE x

\* as TruncDiv, rounding down
TruncDiv_floor(n, d) == n \div d

\* int(n / d) for d > 0: truncation toward zero
TruncDiv(n, d) == IF n >= 0 THEN n \div d ELSE -((-n) \div d)

\* range(a, b)
RangeUp(a, b) == IF a < b THEN [i \in 1 .. (b - a) |-> a + i - 1] ELSE <<>>

\* range(a, -1, -1)
RangeDown(a) == IF a >= 0 THEN [i \in 1 .. (a + 1) |-> a - i + 1] ELSE <<>>

\* lst[i] is defined for -len <= i < len
ValidIndex(len, i) == -len <= i /\ i < len

\* the TLA+ index of lst[i]
PyIndex(len, i) == IF i >= 0 THEN i + 1 ELSE len + i + 1

----------------------------------------------------------------------------
(* Idle tasks and log entries *)

LoopTask       == [task |-> "textureUpdateLoop", tex |-> 0]
DestroyTask(t) == [task |-> "destroy", tex |-> t]

GLOp(op, t, arg) == [op |-> op, tex |-> t, arg |-> arg]

PendingLoops(q) == Cardinality({i \in 1 .. Len(q) : q[i] = LoopTask})

----------------------------------------------------------------------------
(* __zposToIndex and __indexToZpos *)

\* as zposToIndex, lenient at the lower end only
zposToIndex_lowerOnly(zpos, zmn, zmx, ntexs) ==
    LET den == zmx - zmn
        num == (zpos - zmn) * ntexs
    IN  IF 100 * Abs(num) < den THEN 0 ELSE TruncDiv(num, den)

\* the index of the texture for zpos; ntexs > 0 and zmx > zmn
zposToIndex(zpos, zmn, zmx, ntexs) ==
    LET den == zmx - zmn
        num == (zpos - zmn) * ntexs
    IN  IF 100 * Abs(num) < den                     THEN 0
        ELSE IF 100 * Abs(num - ntexs * den) < den  THEN ntexs - 1
        ELSE TruncDiv(num, den)

\* as indexToZpos, with the position at the lower edge of the slice
indexToZpos_edge(index, zmn, zmx, ntexs) ==
    2 * index * (zmx - zmn) + 2 * ntexs * zmn

\* the Z position of texture index, times 2 * ntexs
indexToZpos(index, zmn, zmx, ntexs) ==
    2 * index * (zmx - zmn) + 2 * ntexs * zmn + (zmx - zmn)

----------------------------------------------------------------------------
(* __refreshAllTextures: the order in which the textures are refreshed *)

RECURSIVE interleave(_, _, _, _)
interleave(aboveIdxs, belowIdxs, i, n) ==
    IF i >= n THEN <<>>
    ELSE IF Len(aboveIdxs) > 0 /\ Len(belowIdxs) > 0
         THEN IF i % 2 = 1
              THEN <<Head(belowIdxs)>>
                   \o interleave(aboveIdxs, Tail(belowIdxs), i + 1, n)
              ELSE <<Head(aboveIdxs)>>
                   \o interleave(Tail(aboveIdxs), belowIdxs, i + 1, n)
    ELSE IF Len(aboveIdxs) > 0
         THEN <<Head(aboveIdxs)>>
              \o interleave(Tail(aboveIdxs), belowIdxs, i + 1, n)
    ELSE <<Head(belowIdxs)>>
         \o interleave(aboveIdxs, Tail(belowIdxs), i + 1, n)

\* as refreshOrder, with the last drawn index counted among those below
refreshOrder_lastBelow(last, n) ==
    LET lastIdx == IF last # None THEN last[1] ELSE n \div 2
    IN  interleave(RangeUp(lastIdx + 1, n), RangeDown(lastIdx), 0, n)

\* as refreshOrder, with the indices above all taken before those below
refreshOrder_aboveFirst(last, n) ==
    LET lastIdx == IF last # None THEN last[1] ELSE n \div 2
    IN  interleave(RangeUp(lastIdx, n) \o RangeDown(lastIdx - 1), <<>>, 0, n)

refreshOrder(last, n) ==
    LET lastIdx == IF last # None THEN last[1] ELSE n \div 2
    IN  interleave(RangeUp(lastIdx, n), RangeDown(lastIdx - 1), 0, n)

\* as refreshAllTextures, with the new order put behind the entries that
\* the update queue still holds
refreshAllTextures_keepQueue(last, n, idle) ==
    [dirty |-> [i \in 1 .. n |-> TRUE],
     queue |-> updateQueue \o refreshOrder(last, n),
     idle  |-> Append(idle, LoopTask)]

\* the state __refreshAllTextures leaves
refreshAllTextures(last, n, idle) ==
    [dirty |-> [i \in 1 .. n |-> TRUE],
     queue |-> refreshOrder(last, n),
     idle  |-> Append(idle, LoopTask)]

----------------------------------------------------------------------------
(* __refreshTexture *)

\* what a call of __refreshTexture came to: the GLObject was not ready, or
\* RenderTexture.setSize raised, or the slice was rendered
Attempt(ready, sizeOk) ==
    IF ~ready THEN "notReady" ELSE IF ~sizeOk THEN "sizeFails" ELSE "rendered"

\* as refreshTexture, with the slice rendered whether or not the GLObject
\* is ready
refreshTexture_ignoreReady(tex, idx, ready, sizeOk, dirty, n) ==
    [dirty |-> [dirty EXCEPT ![PyIndex(Len(dirty), idx)] = FALSE],
     log   |-> <<GLOp("setSize", tex, 0),
                 GLOp("bindAsRenderTarget", tex, 0),
                 GLOp("globj.draw", tex, indexToZpos(idx, zmin, zmax, n)),
                 GLOp("unbindAsRenderTarget", tex, 0)>>,
     err   |-> NoError]

\* renders slice idx of the GLObject into tex, unless the GLObject is not
\* ready; dirty is self.__textureDirty and n the number of textures, and
\* sizeOk tells whether tex.setSize returns or raises
refreshTexture(tex, idx, ready, sizeOk, dirty, n) ==
    IF ~ready
    THEN [dirty |-> dirty, log |-> <<>>, err |-> NoError]
    ELSE IF ~sizeOk
    THEN [dirty |-> dirty, log |-> <<GLOp("setSize", tex, 0)>>,
          err |-> SizeError]
    ELSE [dirty |-> [dirty EXCEPT ![PyIndex(Len(dirty), idx)] = FALSE],
          log   |-> <<GLOp("setSize", tex, 0),
                      GLOp("bindAsRenderTarget", tex, 0),
                      GLOp("globj.draw", tex, indexToZpos(idx, zmin, zmax, n)),
                      GLOp("unbindAsRenderTarget", tex, 0)>>,
          err   |-> NoError]

----------------------------------------------------------------------------
(* __destroyTextures *)

\* as destroyTextures, with self.__textures left as it is
destroyTextures_keepList(texes, idle, r) ==
    [textures |-> texes,
     idle |-> idle \o [i \in 1 .. Len(texes) |-> DestroyTask(texes[i])],
     rts  |-> [t \in 1 .. Len(r) |->
                 IF \E i \in 1 .. Len(texes) : texes[i] = t
                 THEN [r[t] EXCEPT !.scheduled = @ + 1]
                 ELSE r[t]]]

\* as destroyTextures, with no destroy passed to async.idle
destroyTextures_leak(texes, idle, r) ==
    [textures |-> <<>>, idle |-> idle, rts |-> r]

\* the texture list, the idle queue and the RenderTextures after
\* __destroyTextures
destroyTextures(texes, idle, r) ==
    [textures |-> <<>>,
     idle |-> idle \o [i \in 1 .. Len(texes) |-> DestroyTask(texes[i])],
     rts  |-> [t \in 1 .. Len(r) |->
                 IF \E i \in 1 .. Len(texes) : texes[i] = t
                 THEN [r[t] EXCEPT !.scheduled = @ + 1]
                 ELSE r[t]]]

----------------------------------------------------------------------------
(* fsleyes.colourmaps.LookupTable *)

\* the largest label value insert accepts
MaxLutValue == 65535

\* Python values: the int n, the float t / 2, and None
IntValue(n)   == [kind |-> "int",   twice |-> 2 * n]
FloatValue(t) == [kind |-> "float", twice |-> t]
NoneValue     == [kind |-> "None",  twice |-> 0]

\* the values passed to insert and delete: integers around both ends of
\* the accepted range, the floats 1.0 and 1.5, and None
LutValues ==
    {IntValue(n) : n \in {-1, 0, 1, 2, 65534, 65535, 65536}}
    \cup {FloatValue(2), FloatValue(3), NoneValue}

\* LutLabel.__eq__ and LutLabel.__lt__ compare the values
LabelEq(a, b) == a.twice = b.twice
LabelLt(a, b) == a.twice < b.twice

\* index(value): <<i>> for the Python index i of the first label equal to
\* LutLabel(value), None where it raises ValueError (no such label, or
\* LutLabel(None))
index(lbls, value) ==
    LET found == {i \in 1 .. Len(lbls) : LabelEq(lbls[i], value)}
    IN  IF value = NoneValue \/ found = {}
        THEN None
        ELSE <<(CHOOSE i \in found : \A j \in found : i <= j) - 1>>

\* get(value) is None: index(value) raised ValueError
get(lbls, value) == index(lbls, value)

\* max()
max(lbls) == IF Len(lbls) = 0 THEN 0 ELSE lbls[Len(lbls)].twice \div 2

\* bisect.bisect_right(a, x, lo, hi)
RECURSIVE bisect(_, _, _, _)
bisect(a, x, lo, hi) ==
    IF lo < hi
    THEN LET mid == (lo + hi) \div 2
         IN  IF LabelLt(x, a[mid + 1])
             THEN bisect(a, x, lo, mid)
             ELSE bisect(a, x, mid + 1, hi)
    ELSE lo

\* as insort, with the label put at the end of the list
insort_append(a, x) == Append(a, x)

\* bisect.insort(a, x)
insort(a, x) ==
    LET i == bisect(a, x, 0, Len(a))
    IN  SubSeq(a, 1, i) \o <<x>> \o SubSeq(a, i + 1, Len(a))

\* what a LookupTable call leaves: the labels, the saved flag, the topics
\* notified on and the exception raised
LutResult(lbls, svd, topics, e) ==
    [labels |-> lbls, saved |-> svd, notified |-> topics, err |-> e]

\* as insert, with a value found in the table only after the table has
\* been marked as not saved
insert_lateCheck(lbls, svd, value) ==
    IF value.kind # "int" \/ value.twice < 0
                         \/ value.twice > 2 * MaxLutValue
    THEN LutResult(lbls, svd, <<>>, "ValueError")
    ELSE IF get(lbls, value) # None
    THEN LutResult(lbls, FALSE, <<"saved">>, "ValueError")
    ELSE LutResult(insort(lbls, value), FALSE, <<"saved", "added">>, NoError)

\* insert(value)
insert(lbls, svd, value) ==
    IF value.kind # "int" \/ value.twice < 0
                         \/ value.twice > 2 * MaxLutValue
    THEN LutResult(lbls, svd, <<>>, "ValueError")
    ELSE IF get(lbls, value) # None
    THEN LutResult(lbls, svd, <<>>, "ValueError")
    ELSE LutResult(insort(lbls, value), FALSE, <<"saved", "added">>, NoError)

\* new()
new(lbls, svd) == insert(lbls, svd, IntValue(max(lbls) + 1))

\* delete(value)
delete(lbls, svd, value) ==
    LET idx == index(lbls, value)
    IN  IF idx = None
        THEN LutResult(lbls, svd, <<>>, "ValueError")
        ELSE LutResult(SubSeq(lbls, 1, idx[1])
                       \o SubSeq(lbls, idx[1] + 2, Len(lbls)),
                       FALSE, <<"removed", "saved">>, NoError)

\* str(n) for an integer n >= 0: its decimal digits
RECURSIVE Str(_)
Str(n) == IF n < 10 THEN <<n>> ELSE Append(Str(n \div 10), n % 10)

\* int(digits)
RECURSIVE ParseInt(_)
ParseInt(digits) ==
    IF Len(digits) = 1
    THEN digits[1]
    ELSE 10 * ParseInt(SubSeq(digits, 1, Len(digits) - 1))
         + digits[Len(digits)]

\* the lines save writes, each by its first token: str(label.value)
savedLines(lbls) == [i \in 1 .. Len(lbls) |-> Str(lbls[i].twice \div 2)]

\* save(lutFile), the file written
save(lbls, svd) == LutResult(lbls, TRUE, <<"saved">>, NoError)

\* the loop of __load over the lines from the i-th on: the labels read so
\* far are in acc and last is the value of the last one
RECURSIVE loadLines(_, _, _, _)
loadLines(lines, i, last, acc) ==
    IF i > Len(lines)
    THEN LutResult(acc, TRUE, <<"saved">>, NoError)
    ELSE LET lval == ParseInt(lines[i])
         IN  IF lval <= last
             THEN LutResult(<<>>, FALSE, <<>>, "ValueError")
             ELSE loadLines(lines, i + 1, lval, Append(acc, IntValue(lval)))

\* LookupTable(key, name, lutFile): __init__ calling __load
load(lines) == loadLines(lines, 1, 0, <<>>)

\* no LookupTable has been constructed from the file as it is
NotLoaded == LutResult(<<>>, FALSE, <<>>, NoError)

\* no file, and the file holding lines
NoFile          == [written |-> FALSE, lines |-> <<>>]
FileOf(lines)   == [written |-> TRUE,  lines |-> lines]

\* the last LookupTable call
LutOp(name, value) == [name |-> name, value |-> value]

\* the LookupTable after LookupTable(key, name) with no lutFile
LutInit ==
    /\ labels   = <<>>
    /\ saved    = FALSE
    /\ notified = <<>>
    /\ lutErr   = NoError
    /\ lutOp    = LutOp("init", NoneValue)
    /\ lutFile  = NoFile
    /\ loaded   = NotLoaded

\* a call that leaves r
LutCall(name, value, r) ==
    /\ labels'   = r.labels
    /\ saved'    = r.saved
    /\ notified' = r.notified
    /\ lutErr'   = r.err
    /\ lutOp'    = LutOp(name, value)
    /\ UNCHANGED <<stackVars, panelVars>>

Insert(value) ==
    /\ LutCall("insert", value, insert(labels, saved, value))
    /\ UNCHANGED <<lutFile, loaded>>

New ==
    /\ LutCall("new", NoneValue, new(labels, saved))
    /\ UNCHANGED <<lutFile, loaded>>

Delete(value) ==
    /\ LutCall("delete", value, delete(labels, saved, value))
    /\ UNCHANGED <<lutFile, loaded>>

Save ==
    /\ LutCall("save", NoneValue, save(labels, saved))
    /\ lutFile' = FileOf(savedLines(labels))
    /\ loaded'  = NotLoaded

\* a second LookupTable is constructed from the file that save wrote
Load ==
    /\ lutFile.written
    /\ loaded' = load(lutFile.lines)
    /\ lutOp'  = LutOp("load", NoneValue)
    /\ UNCHANGED <<labels, saved, notified, lutErr, lutFile>>
    /\ UNCHANGED <<stackVars, panelVars>>

----------------------------------------------------------------------------
(* fsleyes.views.canvaspanel.CanvasPanel: the movie loop *)

\* an overlay as __movieFrame looks at it: whether it is a Nifti, the
\* length of its shape, and whether its DisplayOpts are VolumeOpts
Overlay(nifti, ndims, volumeOpts) ==
    [nifti |-> nifti, ndims |-> ndims, volumeOpts |-> volumeOpts]

\* the values of DisplayContext.getSelectedOverlay(): no overlay, a mesh,
\* a 3D image, a 4D image, and a 4D image that is not shown as a volume
MovieOverlays ==
    {None, Overlay(FALSE, 3, FALSE), Overlay(TRUE, 3, TRUE),
     Overlay(TRUE, 4, TRUE), Overlay(TRUE, 4, FALSE)}

\* the values of movieAxis that are used: the last voxel axis, and time
MovieAxes == {2, 3}

\* the idle timeout startMovie asks for, in milliseconds
movieIdleTimeout == 10

\* the callbacks of the movie loop that are on the idle loop: the number
\* of startMovie calls, of update calls waiting for allReady, and of
\* __movieLoop calls waiting for the movie rate to pass
Pending(start, update, loop) ==
    [start |-> start, update |-> update, loop |-> loop]

\* the number of chains of scheduled movie-frame updates
Chains == movieIdle.update + movieIdle.loop

\* the next frame: the value the volume or voxel coordinate moves to
nextFrame(at) == IF at >= MaxMovieFrames - 1 THEN 0 ELSE at + 1

\* __movieFrame: what it returns, the volume and voxel it leaves, and the
\* callbacks on the idle loop, given the ones that were there
movieFrame(idle) ==
    LET stay == [result |-> FALSE, volume |-> volume, voxel |-> voxel,
                 idle |-> idle]
    IN  IF panelDestroyed THEN stay
        ELSE IF ~movieMode THEN stay
        ELSE IF selectedOverlay = None THEN stay
        ELSE IF \/ ~selectedOverlay.nifti
                \/ selectedOverlay.ndims <= movieAxis
                \/ ~selectedOverlay.volumeOpts THEN stay
        ELSE [result |-> TRUE,
              volume |-> IF movieAxis = 3 THEN nextFrame(volume)
                         ELSE volume,
              voxel  |-> IF movieAxis = 3 THEN voxel
                         ELSE [voxel EXCEPT
                                  ![movieAxis + 1] = nextFrame(@)],
              idle   |-> [idle EXCEPT !.update = @ + 1]]

\* __movieLoop without its test of __movieRunning
movieLoop_alwaysFrame(startLoop, idle) ==
    LET f == movieFrame(idle)
    IN  [result |-> f.result, running |-> f.result, volume |-> f.volume,
         voxel |-> f.voxel, idle |-> f.idle, frame |-> TRUE]

\* __movieLoop(startLoop): what it returns, the fields it leaves, and
\* whether it called __movieFrame
movieLoop(startLoop, idle) ==
    IF startLoop /\ movieRunning
    THEN [result |-> TRUE, running |-> movieRunning, volume |-> volume,
          voxel |-> voxel, idle |-> idle, frame |-> FALSE]
    ELSE LET f == movieFrame(idle)
         IN  [result |-> f.result, running |-> f.result,
              volume |-> f.volume, voxel |-> f.voxel, idle |-> f.idle,
              frame |-> TRUE]

\* the last step of the movie loop: its name, whether the loop was running
\* when it started, and whether it called __movieFrame
MovieOp(name, wasRunning, frame) ==
    [name |-> name, wasRunning |-> wasRunning, frame |-> frame]

MovieInit ==
    /\ movieMode       = FALSE
    /\ movieAxis       = 3
    /\ movieRunning    = FALSE
    /\ panelDestroyed  = FALSE
    /\ selectedOverlay = None
    /\ volume          = 0
    /\ voxel           = <<0, 0, 0>>
    /\ idleTimeout     = None
    /\ movieIdle       = Pending(0, 0, 0)
    /\ movieOp         = MovieOp("init", FALSE, FALSE)

\* __movieModeChanged, with the properties already at their new values
movieModeChanged(mode, name) ==
    /\ IF mode
       THEN /\ movieIdle'   = [movieIdle EXCEPT !.start = @ + 1]
            /\ idleTimeout' = idleTimeout
       ELSE /\ movieIdle'   = movieIdle
            /\ idleTimeout' = None
    /\ movieOp' = MovieOp(name, movieRunning, FALSE)
    /\ UNCHANGED <<movieRunning, panelDestroyed, volume, voxel>>

\* movieMode is given another value, and its listener runs
SetMovieMode(mode) ==
    /\ ~panelDestroyed
    /\ mode # movieMode
    /\ movieMode' = mode
    /\ movieModeChanged(mode, "movieMode")
    /\ UNCHANGED <<movieAxis, selectedOverlay>>
    /\ UNCHANGED <<stackVars, lutVars, editVars, infoVars>>

\* movieAxis is given another value, and its listener runs
SetMovieAxis(axis) ==
    /\ ~panelDestroyed
    /\ axis # movieAxis
    /\ movieAxis' = axis
    /\ movieModeChanged(movieMode, "movieAxis")
    /\ UNCHANGED <<movieMode, selectedOverlay>>
    /\ UNCHANGED <<stackVars, lutVars, editVars, infoVars>>

\* the overlay list or the selected overlay changes, and the listener runs
SelectOverlay(overlay) ==
    /\ ~panelDestroyed
    /\ selectedOverlay' = overlay
    /\ movieModeChanged(movieMode, "overlay")
    /\ UNCHANGED <<movieMode, movieAxis>>
    /\ UNCHANGED <<stackVars, lutVars, editVars, infoVars>>

\* the idle loop runs a startMovie callback
RunStartMovie ==
    /\ movieIdle.start > 0
    /\ LET r == movieLoop(TRUE, [movieIdle EXCEPT !.start = @ - 1])
       IN  /\ movieRunning' = r.running
           /\ volume'       = r.volume
           /\ voxel'        = r.voxel
           /\ movieIdle'    = r.idle
           /\ idleTimeout'  = IF r.result THEN <<movieIdleTimeout>>
                              ELSE None
           /\ movieOp'      = MovieOp("startMovie", movieRunning, r.frame)
    /\ UNCHANGED <<movieMode, movieAxis, panelDestroyed, selectedOverlay,
                   stackVars, lutVars, editVars, infoVars>>

\* every GLObject is ready, and the idle loop runs the update callback
\* (__syncMovieUpdate or __unsyncMovieUpdate), which schedules __movieLoop
RunMovieUpdate ==
    /\ movieIdle.update > 0
    /\ movieIdle' = [movieIdle EXCEPT !.update = @ - 1, !.loop = @ + 1]
    /\ movieOp'   = MovieOp("update", movieRunning, FALSE)
    /\ UNCHANGED <<movieMode, movieAxis, movieRunning, panelDestroyed,
                   selectedOverlay, volume, voxel, idleTimeout,
                   stackVars, lutVars, editVars, infoVars>>

\* the idle loop runs a __movieLoop callback
RunMovieLoop ==
    /\ movieIdle.loop > 0
    /\ LET r == movieLoop(FALSE, [movieIdle EXCEPT !.loop = @ - 1])
       IN  /\ movieRunning' = r.running
           /\ volume'       = r.volume
           /\ voxel'        = r.voxel
           /\ movieIdle'    = r.idle
           /\ movieOp'      = MovieOp("movieLoop", movieRunning, r.frame)
    /\ UNCHANGED <<movieMode, movieAxis, panelDestroyed, selectedOverlay,
                   idleTimeout, stackVars, lutVars, editVars, infoVars>>

\* CanvasPanel.destroy(): the listeners are removed
DestroyPanel ==
    /\ ~panelDestroyed
    /\ panelDestroyed' = TRUE
    /\ movieOp'        = MovieOp("destroy", movieRunning, FALSE)
    /\ UNCHANGED <<movieMode, movieAxis, movieRunning, selectedOverlay,
                   volume, voxel, idleTimeout, movieIdle,
                   stackVars, lutVars, editVars, infoVars>>

----------------------------------------------------------------------------
(* fsleyes.profiles.orthoeditprofile.OrthoEditProfile: the change groups   *)
(* of the Editors.  An Editor is followed by the change groups that have   *)
(* been started on it and not ended.                                       *)

\* the modes whose left mouse handlers start and end a change group
EditModes == {"sel", "desel", "selint"}

\* the ids of the images that can be edited
EditImages == {1, 2}

\* an overlay as __selectedOverlayChanged looks at it: an Image shown as
\* volume, mask or label, or anything else
EditOverlay(id, editable) == [id |-> id, editable |-> editable]

\* the values of DisplayContext.getSelectedOverlay(): no overlay, the
\* images, and a mesh
EditOverlays ==
    {None, EditOverlay(3, FALSE)} \cup
    {EditOverlay(id, TRUE) : id \in EditImages}

\* the last handler: its name, its mode, the Editor it called
\* startChangeGroup or endChangeGroup on (None if it called neither), the
\* change groups open on that Editor before the call, and the Editor the
\* mouse-down handler of the same press started a change group on
EditOp(name, mode, editor, open, started) ==
    [name |-> name, mode |-> mode, editor |-> editor, open |-> open,
     started |-> started]

EditInit ==
    /\ currentOverlay = None
    /\ editors        = {}
    /\ openGroups     = [id \in EditImages |-> 0]
    /\ mouseHeld      = None
    /\ pressed        = None
    /\ editOp         = EditOp("init", "none", None, 0, None)

\* self.__currentOverlay after __selectedOverlayChanged
selectedOverlayChanged_current(overlay) ==
    IF overlay = currentOverlay THEN currentOverlay
    ELSE IF overlay = None THEN None
    ELSE IF ~overlay.editable THEN None
    ELSE overlay

\* the overlay list or the selected overlay changes:
\* __selectedOverlayChanged
EditSelectOverlay(overlay) ==
    /\ currentOverlay' = selectedOverlayChanged_current(overlay)
    /\ editors' = IF currentOverlay' # None /\ currentOverlay' # currentOverlay
                  THEN editors \cup {currentOverlay'.id}
                  ELSE editors
    /\ editOp'  = EditOp("selectedOverlay", "none", None, 0, pressed)
    /\ UNCHANGED <<openGroups, mouseHeld, pressed>>
    /\ UNCHANGED <<stackVars, lutVars, movieVars, infoVars>>

\* _selModeLeftMouseDown, _deselModeLeftMouseDown and
\* _selintModeLeftMouseDown, with inside telling whether
\* __getVoxelLocation found a voxel: the Editor a change group is started
\* on, the groups open on it before, and the open groups afterwards
leftMouseDown(mode, inside) ==
    IF currentOverlay = None
    THEN [editor |-> None, open |-> 0, groups |-> openGroups]
    ELSE LET editor == currentOverlay.id
         IN  IF inside
             THEN [editor |-> <<editor>>, open |-> openGroups[editor],
                   groups |-> [openGroups EXCEPT ![editor] = @ + 1]]
             ELSE [editor |-> None, open |-> 0, groups |-> openGroups]

\* _selModeLeftMouseUp, _deselModeLeftMouseUp and _selintModeLeftMouseUp:
\* the Editor endChangeGroup is called on, the groups open on it before,
\* and the open groups afterwards
leftMouseUp(mode) ==
    IF currentOverlay = None
    THEN [editor |-> None, open |-> 0, groups |-> openGroups]
    ELSE LET editor == currentOverlay.id
         IN  [editor |-> <<editor>>, open |-> openGroups[editor],
              groups |-> [openGroups EXCEPT
                             ![editor] = IF @ > 0 THEN @ - 1 ELSE 0]]

\* the left button is pressed on a canvas, inside the image or outside it
LeftMouseDown(mode, inside) ==
    /\ mouseHeld = None
    /\ LET r == leftMouseDown(mode, inside)
       IN  /\ openGroups' = r.groups
           /\ pressed'    = r.editor
           /\ editOp'     = EditOp("mouseDown", mode, r.editor, r.open,
                                   r.editor)
    /\ mouseHeld' = <<mode>>
    /\ UNCHANGED <<currentOverlay, editors>>
    /\ UNCHANGED <<stackVars, lutVars, movieVars, infoVars>>

\* the mouse is dragged with the button held: _selModeLeftMouseDrag,
\* _deselModeLeftMouseDrag and _selintModeLeftMouseDrag call neither
\* startChangeGroup nor endChangeGroup
LeftMouseDrag ==
    /\ mouseHeld # None
    /\ editOp' = EditOp("mouseDrag", mouseHeld[1], None, 0, pressed)
    /\ UNCHANGED <<currentOverlay, editors, openGroups, mouseHeld, pressed>>
    /\ UNCHANGED <<stackVars, lutVars, movieVars, infoVars>>

\* the left button is released
LeftMouseUp ==
    /\ mouseHeld # None
    /\ LET r == leftMouseUp(mouseHeld[1])
       IN  /\ openGroups' = r.groups
           /\ editOp'     = EditOp("mouseUp", mouseHeld[1], r.editor,
                                   r.open, pressed)
    /\ mouseHeld' = None
    /\ pressed'   = None
    /\ UNCHANGED <<currentOverlay, editors>>
    /\ UNCHANGED <<stackVars, lutVars, movieVars, infoVars>>

----------------------------------------------------------------------------
(* fsleyes.controls.overlayinfopanel.OverlayInfoPanel: the listeners it    *)
(* registers on the Display and DisplayOpts of the selected overlay.  The  *)
(* DisplayOpts of an overlay are replaced when its overlayType changes,    *)
(* and are told apart by a generation number.                              *)

\* the overlays: an Image, and an overlay of a type that has no entry in
\* OverlayInfoPanel._optProps
InfoOverlays == {1, 2}

InfoType(overlay) == IF overlay = 1 THEN "Image" ELSE "Other"

\* OverlayInfoPanel._optProps
optProps ==
    [Image        |-> {"transform"},
     TriangleMesh |-> {"refImage", "coordSpace"},
     DTIFitTensor |-> {"transform"}]

\* whether _optProps has an entry for the type of the overlay
HasOptProps(overlay) == InfoType(overlay) \in DOMAIN optProps

\* a listener of the panel on a property of the Display of an overlay
OnDisplay(overlay, prop) ==
    [on |-> "display", overlay |-> overlay, gen |-> 0, prop |-> prop]

\* a listener of the panel on a property of a DisplayOpts of an overlay
OnOpts(overlay, gen, prop) ==
    [on |-> "opts", overlay |-> overlay, gen |-> gen, prop |-> prop]

\* self.__currentOverlay, self.__currentDisplay and self.__currentOpts
Current(overlay, display, opts) ==
    [overlay |-> overlay, display |-> display, opts |-> opts]

NoCurrent == Current(None, None, None)

\* what a method of the panel leaves: the current fields, the listeners
\* and the exception raised
InfoResult(current, listeners, e) ==
    [current |-> current, listeners |-> listeners, err |-> e]

\* __registerOverlay(overlay), given the fields and listeners before it;
\* _optProps.get(overlay, []) is the empty list for a type without entry
registerOverlay(overlay, current, listeners) ==
    LET opts == <<overlay, optsGen'[overlay]>>
    IN  InfoResult(
            Current(<<overlay>>, <<overlay>>, opts),
            listeners
              \cup {OnDisplay(overlay, "name"),
                    OnDisplay(overlay, "overlayType")}
              \cup (IF HasOptProps(overlay)
                    THEN {OnOpts(opts[1], opts[2], p) :
                              p \in optProps[InfoType(overlay)]}
                    ELSE {}),
            NoError)

\* __deregisterOverlay(), given the fields and listeners before it;
\* _optProps[overlay] raises KeyError for a type without entry
deregisterOverlay(current, listeners) ==
    IF current.overlay = None
    THEN InfoResult(current, listeners, NoError)
    ELSE LET overlay   == current.overlay[1]
             display   == current.display[1]
             opts      == current.opts
             unnamed   == listeners \ {OnDisplay(display, "name"),
                                       OnDisplay(display, "overlayType")}
         IN  IF HasOptProps(overlay)
             THEN InfoResult(
                      NoCurrent,
                      unnamed \ {OnOpts(opts[1], opts[2], p) :
                                     p \in optProps[InfoType(overlay)]},
                      NoError)
             ELSE InfoResult(NoCurrent, unnamed, "KeyError")

\* __selectedOverlayChanged, with the selected overlay at its new value
selectedOverlayChanged(overlay, current, listeners) ==
    IF overlay = None
    THEN InfoResult(current, listeners, NoError)
    ELSE LET d == deregisterOverlay(current, listeners)
         IN  IF d.err # NoError THEN d
             ELSE registerOverlay(overlay[1], d.current, d.listeners)

\* the last call of the panel and the exception it raised
InfoOp(name, e) == [name |-> name, err |-> e]

InfoInit ==
    /\ infoSelected  = None
    /\ infoCurrent   = NoCurrent
    /\ infoListeners = {}
    /\ optsGen       = [overlay \in InfoOverlays |-> 0]
    /\ infoDestroyed = FALSE
    /\ infoOp        = InfoOp("init", NoError)

\* the overlay list or the selected overlay changes, and the listener of
\* the panel runs
InfoSelectOverlay(overlay) ==
    /\ ~infoDestroyed
    /\ infoSelected' = overlay
    /\ optsGen'      = optsGen
    /\ LET r == selectedOverlayChanged(overlay, infoCurrent, infoListeners)
       IN  /\ infoCurrent'   = r.current
           /\ infoListeners' = r.listeners
           /\ infoOp'        = InfoOp("selectedOverlay", r.err)
    /\ UNCHANGED infoDestroyed
    /\ UNCHANGED <<stackVars, lutVars, movieVars, editVars>>

\* Display.overlayType of an overlay changes: its DisplayOpts are replaced,
\* and __overlayTypeChanged runs if the panel listens on that Display
OverlayTypeChanged(overlay) ==
    /\ ~infoDestroyed
    /\ optsGen' = [optsGen EXCEPT ![overlay] = @ + 1]
    /\ IF OnDisplay(overlay, "overlayType") \in infoListeners
       THEN LET r == selectedOverlayChanged(infoSelected, infoCurrent,
                                            infoListeners)
            IN  /\ infoCurrent'   = r.current
                /\ infoListeners' = r.listeners
                /\ infoOp'        = InfoOp("overlayType", r.err)
       ELSE /\ UNCHANGED <<infoCurrent, infoListeners>>
            /\ infoOp' = InfoOp("none", NoError)
    /\ UNCHANGED <<infoSelected, infoDestroyed>>
    /\ UNCHANGED <<stackVars, lutVars, movieVars, editVars>>

\* OverlayInfoPanel.destroy(), as far as the listeners on the Display and
\* DisplayOpts go
InfoDestroy ==
    /\ ~infoDestroyed
    /\ infoDestroyed' = TRUE
    /\ infoListeners' =
           IF infoCurrent.display # None
           THEN infoListeners \ {OnDisplay(infoCurrent.display[1], "name")}
           ELSE infoListeners
    /\ infoCurrent' = [infoCurrent EXCEPT !.overlay = None,
                                          !.display = None]
    /\ infoOp'      = InfoOp("destroy", NoError)
    /\ UNCHANGED <<infoSelected, optsGen>>
    /\ UNCHANGED <<stackVars, lutVars, movieVars, editVars>>

----------------------------------------------------------------------------
(* The state after RenderTextureStack.__init__ *)

\* the last operation: its name, the texture index it worked on, whether
\* that texture was dirty when it started, the Z position it was given (where
\* that is recorded) and what its call of __refreshTexture came to
OpAt(name, idx, wasDirty, zpos, attempt) ==
    [name |-> name, idx |-> idx, wasDirty |-> wasDirty, zpos |-> zpos,
     attempt |-> attempt]

Op(name, idx, wasDirty) == OpAt(name, idx, wasDirty, 0, "none")

\* sinceRefreshAll right after __refreshAllTextures: the number of calls of
\* __textureUpdateLoop since, the number of globj.draw calls they made, and
\* whether nothing but idle callbacks that found the GLObject ready has run
\* since; allReady tells whether the GLObject was ready at every refresh
\* attempted since __init__
Refreshed(allReady) ==
    [loops |-> 0, draws |-> 0, undisturbed |-> TRUE, allReady |-> allReady]

\* sinceRefreshAll after another operation has run
Disturbed(allReady) ==
    [loops |-> 0, draws |-> 0, undisturbed |-> FALSE, allReady |-> allReady]

Init ==
    /\ textures         = <<>>
    /\ textureDirty     = <<>>
    /\ lastDrawnTexture = None
    /\ updateQueue      = <<>>
    /\ axes             = None
    /\ zmin             = 0
    /\ zmax             = 0
    /\ idleQueue        = <<LoopTask>>
    /\ rts              = <<>>
    /\ glLog            = <<>>
    /\ err              = NoError
    /\ lastOp           = Op("init", 0, FALSE)
    /\ sinceRefreshAll  = Disturbed(TRUE)
    /\ LutInit
    /\ MovieInit
    /\ EditInit
    /\ InfoInit

----------------------------------------------------------------------------
(* draw(zpos) *)

\* as draw, with only an index past the end of the list left undrawn
draw_noNegativeCheck(zpos, ready, sizeOk) ==
    IF axes = None
    THEN [last |-> lastDrawnTexture, dirty |-> textureDirty, log |-> <<>>,
          err |-> "AttributeError", idx |-> 0, wasDirty |-> FALSE,
          attempt |-> "none"]
    ELSE IF Len(textures) = 0
    THEN [last |-> lastDrawnTexture, dirty |-> textureDirty, log |-> <<>>,
          err |-> "ZeroDivisionError", idx |-> 0, wasDirty |-> FALSE,
          attempt |-> "none"]
    ELSE
    LET texIdx == zposToIndex(zpos, zmin, zmax, Len(textures))
    IN  IF texIdx >= Len(textures) \/ ~ValidIndex(Len(textures), texIdx)
        THEN [last |-> <<texIdx>>, dirty |-> textureDirty, log |-> <<>>,
              err |-> NoError, idx |-> texIdx, wasDirty |-> FALSE,
              attempt |-> "none"]
        ELSE
        LET texture == textures[PyIndex(Len(textures), texIdx)]
            isDirty == textureDirty[PyIndex(Len(textures), texIdx)]
            r == IF isDirty
                 THEN refreshTexture(texture, texIdx, ready, sizeOk,
                                     textureDirty, Len(textures))
                 ELSE [dirty |-> textureDirty, log |-> <<>>, err |-> NoError]
        IN  [last |-> <<texIdx>>, dirty |-> r.dirty,
             log  |-> IF r.err = NoError
                      THEN Append(r.log, GLOp("drawOnBounds", texture, 0))
                      ELSE r.log,
             err  |-> r.err, idx |-> texIdx, wasDirty |-> isDirty,
             attempt |-> IF isDirty THEN Attempt(ready, sizeOk) ELSE "none"]

\* draw(zpos): the fields it leaves, the calls it makes and what it raises
draw(zpos, ready, sizeOk) ==
    IF axes = None
    THEN [last |-> lastDrawnTexture, dirty |-> textureDirty, log |-> <<>>,
          err |-> "AttributeError", idx |-> 0, wasDirty |-> FALSE,
          attempt |-> "none"]
    ELSE IF Len(textures) = 0
    THEN [last |-> lastDrawnTexture, dirty |-> textureDirty, log |-> <<>>,
          err |-> "ZeroDivisionError", idx |-> 0, wasDirty |-> FALSE,
          attempt |-> "none"]
    ELSE
    LET texIdx == zposToIndex(zpos, zmin, zmax, Len(textures))
    IN  IF texIdx < 0 \/ texIdx >= Len(textures)
        THEN [last |-> <<texIdx>>, dirty |-> textureDirty, log |-> <<>>,
              err |-> NoError, idx |-> texIdx, wasDirty |-> FALSE,
              attempt |-> "none"]
        ELSE
        LET texture == textures[texIdx + 1]
            isDirty == textureDirty[texIdx + 1]
            r == IF isDirty
                 THEN refreshTexture(texture, texIdx, ready, sizeOk,
                                     textureDirty, Len(textures))
                 ELSE [dirty |-> textureDirty, log |-> <<>>, err |-> NoError]
        IN  [last |-> <<texIdx>>, dirty |-> r.dirty,
             log  |-> IF r.err = NoError
                      THEN Append(r.log, GLOp("drawOnBounds", texture, 0))
                      ELSE r.log,
             err  |-> r.err, idx |-> texIdx, wasDirty |-> isDirty,
             attempt |-> IF isDirty THEN Attempt(ready, sizeOk) ELSE "none"]

\* a call of draw; shown is the Z position that lastOp keeps
DrawShowing(zpos, ready, sizeOk, shown) ==
    LET d == draw(zpos, ready, sizeOk)
    IN  /\ lastDrawnTexture' = d.last
        /\ textureDirty'     = d.dirty
        /\ glLog'            = d.log
        /\ err'              = d.err
        /\ lastOp'           = OpAt("draw", d.idx, d.wasDirty, shown,
                                    d.attempt)
        /\ sinceRefreshAll'  =
               Disturbed(sinceRefreshAll.allReady
                         /\ d.attempt \in {"none", "rendered"})
        /\ UNCHANGED <<textures, updateQueue, axes, zmin, zmax, idleQueue,
                       rts>>
        /\ UNCHANGED <<lutVars, panelVars>>

Draw(zpos, ready, sizeOk) == DrawShowing(zpos, ready, sizeOk, 0)

----------------------------------------------------------------------------
(* setAxes(xax, yax), onGLObjectUpdate() and destroy() *)

\* the number of textures setAxes creates
numTexturesFor(res, zax) ==
    LET n == IF res # None THEN res[zax + 1] ELSE defaultNumTextures
    IN  IF n > maxNumTextures THEN maxNumTextures ELSE n

\* as newTextures, with every texture given the name of slot 0
newTextures_oneName(r, n) ==
    [ids  |-> [i \in 1 .. n |-> Len(r) + i],
     recs |-> [i \in 1 .. n |->
                 [name |-> 0, scheduled |-> 0, destroyed |-> 0]]]

\* the RenderTextures setAxes constructs: ids and records, named by slot
newTextures(r, n) ==
    [ids  |-> [i \in 1 .. n |-> Len(r) + i],
     recs |-> [i \in 1 .. n |->
                 [name |-> i - 1, scheduled |-> 0, destroyed |-> 0]]]

SetAxes(xax, yax, res) ==
    LET zax == 3 - xax - yax
        n   == numTexturesFor(res, zax)
        d   == destroyTextures(textures, idleQueue, rts)
        made == newTextures(rts, n)
        tx  == d.textures \o made.ids
        ra  == refreshAllTextures(lastDrawnTexture, Len(tx), d.idle)
    IN  /\ axes'            = <<xax, yax, zax>>
        /\ textures'        = tx
        /\ rts'             = d.rts \o made.recs
        /\ zmin'            = GLObjLo[zax + 1]
        /\ zmax'            = GLObjHi[zax + 1]
        /\ textureDirty'    = ra.dirty
        /\ updateQueue'     = ra.queue
        /\ idleQueue'       = ra.idle
        /\ glLog'           = <<>>
        /\ err'             = NoError
        /\ lastOp'          = Op("setAxes", 0, FALSE)
        /\ sinceRefreshAll' = Refreshed(sinceRefreshAll.allReady)
        /\ UNCHANGED lastDrawnTexture
        /\ UNCHANGED <<lutVars, panelVars>>

OnGLObjectUpdate ==
    /\ lastOp' = Op("onGLObjectUpdate", 0, FALSE)
    /\ glLog'  = <<>>
    /\ UNCHANGED <<lutVars, panelVars>>
    /\ IF axes = None
       THEN /\ err' = "AttributeError"
            /\ sinceRefreshAll' = Disturbed(sinceRefreshAll.allReady)
            /\ UNCHANGED <<textures, textureDirty, lastDrawnTexture,
                           updateQueue, axes, zmin, zmax, idleQueue, rts>>
       ELSE LET ra == refreshAllTextures(lastDrawnTexture, Len(textures),
                                         idleQueue)
            IN  /\ zmin'            = GLObjLo[axes[3] + 1]
                /\ zmax'            = GLObjHi[axes[3] + 1]
                /\ textureDirty'    = ra.dirty
                /\ updateQueue'     = ra.queue
                /\ idleQueue'       = ra.idle
                /\ err'             = NoError
                /\ sinceRefreshAll' = Refreshed(sinceRefreshAll.allReady)
                /\ UNCHANGED <<textures, lastDrawnTexture, axes, rts>>

Destroy ==
    LET d == destroyTextures(textures, idleQueue, rts)
    IN  /\ textures'        = d.textures
        /\ idleQueue'       = d.idle
        /\ rts'             = d.rts
        /\ glLog'           = <<>>
        /\ err'             = NoError
        /\ lastOp'          = Op("destroy", 0, FALSE)
        /\ sinceRefreshAll' = Disturbed(sinceRefreshAll.allReady)
        /\ UNCHANGED <<textureDirty, lastDrawnTexture, updateQueue, axes,
                       zmin, zmax>>
        /\ UNCHANGED <<lutVars, panelVars>>

----------------------------------------------------------------------------
(* The idle loop: __textureUpdateLoop and RenderTexture.destroy *)

\* as rescheduled, with the callback passed to async.idle every time
rescheduled_always(queue, idle) == Append(idle, LoopTask)

\* the idle queue after the last lines of __textureUpdateLoop, which pass
\* the callback to async.idle again if the update queue is not empty
rescheduled(queue, idle) ==
    IF Len(queue) > 0 THEN Append(idle, LoopTask) ELSE idle

\* as textureUpdateLoop, with the index of a texture that could not be
\* refreshed, the GLObject not being ready, put back at the end of the queue
textureUpdateLoop_retry(ready, sizeOk, idle) ==
    IF Len(updateQueue) = 0 \/ Len(textures) = 0
    THEN [queue |-> updateQueue, dirty |-> textureDirty, idle |-> idle,
          log |-> <<>>, err |-> NoError, idx |-> 0, wasDirty |-> FALSE,
          tried |-> FALSE]
    ELSE
    LET idx   == Head(updateQueue)
        queue == Tail(updateQueue)
        again == rescheduled(queue, idle)
    IN  IF ~ValidIndex(Len(textureDirty), idx)
        THEN [queue |-> queue, dirty |-> textureDirty, idle |-> idle,
              log |-> <<>>, err |-> "IndexError", idx |-> idx,
              wasDirty |-> FALSE, tried |-> FALSE]
        ELSE IF ~textureDirty[PyIndex(Len(textureDirty), idx)]
        THEN [queue |-> queue, dirty |-> textureDirty, idle |-> again,
              log |-> <<>>, err |-> NoError, idx |-> idx, wasDirty |-> FALSE,
              tried |-> FALSE]
        ELSE IF ~ValidIndex(Len(textures), idx)
        THEN [queue |-> queue, dirty |-> textureDirty, idle |-> idle,
              log |-> <<>>, err |-> "IndexError", idx |-> idx,
              wasDirty |-> TRUE, tried |-> FALSE]
        ELSE
        LET tex == textures[PyIndex(Len(textures), idx)]
            r   == refreshTexture(tex, idx, ready, sizeOk, textureDirty,
                                  Len(textures))
        IN  [queue |-> IF ready THEN queue ELSE Append(queue, idx),
             dirty |-> r.dirty,
             idle |-> IF r.err = NoError THEN again ELSE idle,
             log |-> r.log, err |-> r.err, idx |-> idx, wasDirty |-> TRUE,
             tried |-> TRUE]

\* one call of __textureUpdateLoop; idle is the idle queue without this call
textureUpdateLoop(ready, sizeOk, idle) ==
    IF Len(updateQueue) = 0 \/ Len(textures) = 0
    THEN [queue |-> updateQueue, dirty |-> textureDirty, idle |-> idle,
          log |-> <<>>, err |-> NoError, idx |-> 0, wasDirty |-> FALSE,
          tried |-> FALSE]
    ELSE
    LET idx   == Head(updateQueue)
        queue == Tail(updateQueue)
        again == rescheduled(queue, idle)
    IN  IF ~ValidIndex(Len(textureDirty), idx)
        THEN [queue |-> queue, dirty |-> textureDirty, idle |-> idle,
              log |-> <<>>, err |-> "IndexError", idx |-> idx,
              wasDirty |-> FALSE, tried |-> FALSE]
        ELSE IF ~textureDirty[PyIndex(Len(textureDirty), idx)]
        THEN [queue |-> queue, dirty |-> textureDirty, idle |-> again,
              log |-> <<>>, err |-> NoError, idx |-> idx, wasDirty |-> FALSE,
              tried |-> FALSE]
        ELSE IF ~ValidIndex(Len(textures), idx)
        THEN [queue |-> queue, dirty |-> textureDirty, idle |-> idle,
              log |-> <<>>, err |-> "IndexError", idx |-> idx,
              wasDirty |-> TRUE, tried |-> FALSE]
        ELSE
        LET tex == textures[PyIndex(Len(textures), idx)]
            r   == refreshTexture(tex, idx, ready, sizeOk, textureDirty,
                                  Len(textures))
        IN  [queue |-> queue, dirty |-> r.dirty,
             idle |-> IF r.err = NoError THEN again ELSE idle,
             log |-> r.log, err |-> r.err, idx |-> idx, wasDirty |-> TRUE,
             tried |-> TRUE]

\* the number of globj.draw calls in a log
NumDraws(log) ==
    Cardinality({i \in 1 .. Len(log) : log[i].op = "globj.draw"})

RunTextureUpdateLoop(ready, sizeOk) ==
    /\ idleQueue # <<>>
    /\ Head(idleQueue) = LoopTask
    /\ LET u == textureUpdateLoop(ready, sizeOk, Tail(idleQueue))
       IN  /\ updateQueue'  = u.queue
           /\ textureDirty' = u.dirty
           /\ idleQueue'    = u.idle
           /\ glLog'        = u.log
           /\ err'          = u.err
           /\ lastOp'       =
                  OpAt("textureUpdateLoop", u.idx, u.wasDirty, 0,
                       IF u.tried THEN Attempt(ready, sizeOk) ELSE "none")
           /\ sinceRefreshAll' =
                  IF u.tried /\ Attempt(ready, sizeOk) # "rendered"
                  THEN Disturbed(FALSE)
                  ELSE IF ~sinceRefreshAll.undisturbed
                  THEN sinceRefreshAll
                  ELSE [sinceRefreshAll EXCEPT
                          !.loops = IF @ <= Len(textures) THEN @ + 1 ELSE @,
                          !.draws = IF sinceRefreshAll.loops <= Len(textures)
                                    THEN @ + NumDraws(u.log) ELSE @]
    /\ UNCHANGED <<textures, lastDrawnTexture, axes, zmin, zmax, rts>>
    /\ UNCHANGED <<lutVars, panelVars>>

RunDestroy ==
    /\ idleQueue # <<>>
    /\ Head(idleQueue).task = "destroy"
    /\ LET t == Head(idleQueue).tex
       IN  /\ rts'   = [rts EXCEPT ![t].destroyed = @ + 1]
           /\ glLog' = <<GLOp("destroy", t, 0)>>
    /\ idleQueue' = Tail(idleQueue)
    /\ err'       = NoError
    /\ lastOp'    = Op("RenderTexture.destroy", 0, FALSE)
    /\ UNCHANGED <<textures, textureDirty, lastDrawnTexture, updateQueue,
                   axes, zmin, zmax, sinceRefreshAll>>
    /\ UNCHANGED <<lutVars, panelVars>>

----------------------------------------------------------------------------

\* setAxes within the bounds of the model
BoundedSetAxes(ax, res) ==
    /\ Len(rts) + numTexturesFor(res, 3 - ax[1] - ax[2]) <= MaxTextures
    /\ PendingLoops(idleQueue) < MaxPendingLoops
    /\ SetAxes(ax[1], ax[2], res)

\* onGLObjectUpdate within the bounds of the model
BoundedOnGLObjectUpdate ==
    /\ PendingLoops(idleQueue) < MaxPendingLoops
    /\ OnGLObjectUpdate

Next ==
    \/ \E zpos \in ZPositions, c \in Conditions :
           Draw(zpos, c.ready, c.sizeOk)
    \/ \E ax \in AxisPairs, res \in Resolutions : BoundedSetAxes(ax, res)
    \/ BoundedOnGLObjectUpdate
    \/ Destroy
    \/ \E c \in Conditions : RunTextureUpdateLoop(c.ready, c.sizeOk)
    \/ RunDestroy

Spec == Init /\ [][Next]_vars

----------------------------------------------------------------------------
(* The life of the RenderTextures: setAxes, onGLObjectUpdate and destroy   *)
(* calls, with the idle loop running every callback queued on it           *)

LifecycleNext ==
    \/ \E ax \in AxisPairs, res \in Resolutions : BoundedSetAxes(ax, res)
    \/ BoundedOnGLObjectUpdate
    \/ Destroy
    \/ \E c \in Conditions : RunTextureUpdateLoop(c.ready, c.sizeOk)
    \/ RunDestroy

LifecycleSpec ==
    /\ Init
    /\ [][LifecycleNext]_vars
    /\ WF_vars(\E c \in Conditions : RunTextureUpdateLoop(c.ready, c.sizeOk))
    /\ WF_vars(RunDestroy)

----------------------------------------------------------------------------
(* The refresh order alone: one setAxes on a GLObject of up to MaxSlots    *)
(* slices, then draws and updates, with the idle loop not yet run          *)

FirstSetAxes(res) ==
    /\ rts = <<>>
    /\ SetAxes(1, 2, res)

SlotDraw(zpos, ready) ==
    /\ axes # None
    /\ Draw(zpos, ready, TRUE)

SlotOnGLObjectUpdate ==
    /\ PendingLoops(idleQueue) < MaxQueuedLoops
    /\ OnGLObjectUpdate

SlotNext ==
    \/ \E res \in SlotResolutions : FirstSetAxes(res)
    \/ \E zpos \in SlotPositions, ready \in BOOLEAN : SlotDraw(zpos, ready)
    \/ SlotOnGLObjectUpdate

SlotSpec == Init /\ [][SlotNext]_vars

----------------------------------------------------------------------------
(* The refresh queue in use: one setAxes on a GLObject of up to            *)
(* MaxQueueSlots slices, then draws with the GLObject ready, updates, and  *)
(* the idle loop running its callbacks with the GLObject ready or not      *)

QueueSetAxes(res) ==
    /\ rts = <<>>
    /\ SetAxes(1, 2, res)

QueueDraw(zpos) ==
    /\ axes # None
    /\ Draw(zpos, TRUE, TRUE)

QueueOnGLObjectUpdate ==
    /\ PendingLoops(idleQueue) < MaxPendingLoops
    /\ OnGLObjectUpdate

QueueNext ==
    \/ \E res \in QueueResolutions : QueueSetAxes(res)
    \/ \E zpos \in QueuePositions : QueueDraw(zpos)
    \/ QueueOnGLObjectUpdate
    \/ \E ready \in BOOLEAN : RunTextureUpdateLoop(ready, TRUE)

QueueSpec == Init /\ [][QueueNext]_vars

----------------------------------------------------------------------------
(* The mapping between Z positions and texture indices alone: one setAxes  *)
(* on a GLObject of up to MaxMapRes slices, then draws at MapPositions     *)
(* with the GLObject ready, each keeping its Z position in lastOp          *)

MapSetAxes(ax, res) ==
    /\ rts = <<>>
    /\ SetAxes(ax[1], ax[2], res)

MapDraw(zpos) ==
    /\ axes # None
    /\ DrawShowing(zpos, TRUE, TRUE, zpos)

MapNext ==
    \/ \E ax \in AxisPairs, res \in MapResolutions : MapSetAxes(ax, res)
    \/ \E zpos \in MapPositions : MapDraw(zpos)

MapSpec == Init /\ [][MapNext]_vars

----------------------------------------------------------------------------
(* The LookupTable alone: insert, new, delete and save calls on a table    *)
(* that starts empty                                                       *)

\* insert and new within the bounds of the model
BoundedInsert(value) ==
    /\ Len(insert(labels, saved, value).labels) <= MaxLabels
    /\ Insert(value)

BoundedNew ==
    /\ Len(new(labels, saved).labels) <= MaxLabels
    /\ New

LutNext ==
    \/ \E value \in LutValues : BoundedInsert(value)
    \/ BoundedNew
    \/ \E value \in LutValues : Delete(value)
    \/ Save
    \/ Load

LutSpec == Init /\ [][LutNext]_vars

----------------------------------------------------------------------------
(* The movie loop of a CanvasPanel: changes of movieMode, movieAxis and    *)
(* the selected overlay, with the idle loop running the callbacks in any   *)
(* order, and destroy()                                                    *)

\* a listener call that queues startMovie, with room left on the idle loop
MovieRoom == movieIdle.start < MaxPendingStarts

MovieNext ==
    \/ \E mode \in BOOLEAN : MovieRoom /\ SetMovieMode(mode)
    \/ \E axis \in MovieAxes : MovieRoom /\ SetMovieAxis(axis)
    \/ \E overlay \in MovieOverlays : MovieRoom /\ SelectOverlay(overlay)
    \/ Chains < MaxMovieChains /\ RunStartMovie
    \/ RunMovieUpdate
    \/ Chains <= MaxMovieChains /\ RunMovieLoop
    \/ DestroyPanel

MovieSpec == Init /\ [][MovieNext]_vars

----------------------------------------------------------------------------
(* The change groups of an OrthoEditProfile: presses inside and outside    *)
(* the image, drags and releases in the sel, desel and selint modes, and   *)
(* changes of the selected overlay at any time                             *)

\* a press that leaves at most MaxOpenGroups change groups open on an Editor
EditRoom(mode, inside) ==
    \A id \in EditImages :
        leftMouseDown(mode, inside).groups[id] <= MaxOpenGroups

EditNext ==
    \/ \E overlay \in EditOverlays : EditSelectOverlay(overlay)
    \/ \E mode \in EditModes, inside \in BOOLEAN :
           EditRoom(mode, inside) /\ LeftMouseDown(mode, inside)
    \/ LeftMouseDrag
    \/ LeftMouseUp

EditSpec == Init /\ [][EditNext]_vars

----------------------------------------------------------------------------
(* The listeners of an OverlayInfoPanel: changes of the selected overlay   *)
(* and of the overlayType of the overlays, and destroy()                   *)

InfoNext ==
    \/ \E overlay \in {None} \cup {<<o>> : o \in InfoOverlays} :
           InfoSelectOverlay(overlay)
    \/ \E overlay \in InfoOverlays :
           optsGen[overlay] < MaxOptsGen /\ OverlayTypeChanged(overlay)
    \/ InfoDestroy

InfoSpec == Init /\ [][InfoNext]_vars

----------------------------------------------------------------------------
(* Properties *)

\* the number of textures in the stack
N == Len(textures)

\* texture t is in the stack
InStack(t) == \E i \in 1 .. N : textures[i] = t

\* a destroy of texture t is queued on the idle loop
DestroyPending(t) ==
    \E i \in 1 .. Len(idleQueue) : idleQueue[i] = DestroyTask(t)

\* the last operation called __refreshAllTextures
JustRefreshedAll ==
    lastOp.name \in {"setAxes", "onGLObjectUpdate"} /\ err = NoError

\* the last operation was a draw() that drew a texture
DrewTexture ==
    /\ lastOp.name = "draw"
    /\ \E i \in 1 .. Len(glLog) : glLog[i].op = "drawOnBounds"

TypeOK ==
    /\ Len(textureDirty) = N \/ N = 0
    /\ \A i \in 1 .. N : textures[i] \in 1 .. Len(rts)

\* C1: draw never draws a dirty texture: when draw(zpos) maps to a texture
\* that is dirty, that texture is refreshed exactly once and is clean when
\* it is drawn, whatever the GLObject's ready() returns.
C1_DrawNeverServesDirty ==
    (DrewTexture /\ lastOp.wasDirty) =>
        /\ NumDraws(glLog) = 1
        /\ ~textureDirty[lastOp.idx + 1]

\* C2: every dirty texture is eventually refreshed: with the GLObject ready
\* at every refresh attempted, once no loop callback is left to run no
\* texture of the stack is dirty.
C2_NoLoopLeftMeansAllClean ==
    (PendingLoops(idleQueue) = 0 /\ sinceRefreshAll.allReady) =>
        \A i \in 1 .. N : ~textureDirty[i]

\* C3: at most one call of __textureUpdateLoop is queued on the idle loop
\* at any time.
C3_AtMostOneLoopQueued == PendingLoops(idleQueue) <= 1

\* C4: once a draw has occurred, the last drawn index is a valid texture
\* index, 0 <= lastDrawnTexture < N.
C4_LastDrawnIsValidIndex ==
    lastDrawnTexture # None =>
        (0 <= lastDrawnTexture[1] /\ lastDrawnTexture[1] < N)

\* a valid last drawn index, or none yet
LastDrawnValid ==
    lastDrawnTexture = None
        \/ (0 <= lastDrawnTexture[1] /\ lastDrawnTexture[1] < N)

\* the index __refreshAllTextures starts from
StartIndex == IF lastDrawnTexture # None THEN lastDrawnTexture[1] ELSE N \div 2

\* C5: for N >= 1 textures and a last drawn index k in [0, N-1] (or N/2
\* when nothing was drawn yet), the update queue that __refreshAllTextures
\* builds holds every index of [0, N-1] exactly once, and starts with k
\* and then k - 1 (when k >= 1).
C5_QueueCoversEveryIndexOnce ==
    (JustRefreshedAll /\ N >= 1 /\ LastDrawnValid) =>
        /\ Len(updateQueue) = N
        /\ \A i \in 0 .. N - 1 :
              Cardinality({j \in 1 .. N : updateQueue[j] = i}) = 1
        /\ updateQueue[1] = StartIndex
        /\ StartIndex >= 1 => updateQueue[2] = StartIndex - 1

\* an update with a draw before it, on a stack of three textures or more
C5_Reached ==
    /\ lastOp.name = "onGLObjectUpdate"
    /\ N >= 3
    /\ lastDrawnTexture # None
    /\ LastDrawnValid
    /\ StartIndex >= 1
    /\ StartIndex < N - 1

\* C6 as stated: with six textures and last drawn index 4, the update
\* queue is [4, 5, 3, 2, 1, 0].
C6_QueueAsStated ==
    (JustRefreshedAll /\ N = 6 /\ lastDrawnTexture = <<4>>) =>
        updateQueue = <<4, 5, 3, 2, 1, 0>>

\* C6: with six textures and last drawn index 4, the update queue is
\* [4, 3, 5, 2, 1, 0]: above and below alternate until above runs out.
C6_QueueSixFour ==
    (JustRefreshedAll /\ N = 6 /\ lastDrawnTexture = <<4>>) =>
        updateQueue = <<4, 3, 5, 2, 1, 0>>

\* an update of six textures after index 4 was drawn
C6_Reached ==
    /\ lastOp.name = "onGLObjectUpdate"
    /\ N = 6
    /\ lastDrawnTexture = <<4>>
    /\ Len(updateQueue) = 6

\* C7: a call of __textureUpdateLoop refreshes at most one texture, and
\* after a __refreshAllTextures followed by nothing but idle callbacks,
\* with the GLObject ready, each of the first N calls refreshes exactly one.
C7_OneRefreshPerLoop ==
    /\ lastOp.name = "textureUpdateLoop" => NumDraws(glLog) <= 1
    /\ (sinceRefreshAll.undisturbed /\ sinceRefreshAll.loops <= N) =>
          sinceRefreshAll.draws = sinceRefreshAll.loops

\* C8: a call of __textureUpdateLoop works only on textures that are in
\* the stack and have no destroy scheduled, and on none at all when the
\* stack has been emptied by destroy().
C8_LoopNeverActsOnStale ==
    lastOp.name = "textureUpdateLoop" =>
        /\ \A i \in 1 .. Len(glLog) :
              /\ InStack(glLog[i].tex)
              /\ rts[glLog[i].tex].scheduled = 0
              /\ rts[glLog[i].tex].destroyed = 0
        /\ N = 0 => glLog = <<>>

\* the loop has run on a destroyed stack whose update queue was not empty,
\* or has refreshed a texture after setAxes replaced an earlier one
C8_Reached ==
    /\ lastOp.name = "textureUpdateLoop"
    /\ \/ N = 0 /\ updateQueue # <<>> /\ rts # <<>>
       \/ glLog # <<>> /\ Len(rts) > N

\* the number of destroy callbacks queued for texture t
NumDestroyPending(t) ==
    Cardinality({i \in 1 .. Len(idleQueue) : idleQueue[i] = DestroyTask(t)})

\* every texture out of the stack has had one destroy scheduled, which is
\* queued or has run once; no texture in the stack has any
DestroyScheduledOnce ==
    \A t \in 1 .. Len(rts) :
        /\ rts[t].scheduled <= 1
        /\ InStack(t) <=> rts[t].scheduled = 0
        /\ rts[t].destroyed + NumDestroyPending(t) = rts[t].scheduled

\* C9: every RenderTexture that setAxes replaces or destroy() removes has
\* its destroy scheduled exactly once, and is eventually destroyed, once.
C9_DestroyedExactlyOnce ==
    /\ []DestroyScheduledOnce
    /\ \A t \in 1 .. MaxTextures :
          (Len(rts) >= t /\ rts[t].scheduled = 1)
              ~> (Len(rts) >= t /\ rts[t].destroyed = 1)

\* a texture replaced by setAxes has been destroyed
C9_Reached ==
    /\ N > 0
    /\ \E t \in 1 .. Len(rts) : rts[t].scheduled = 1 /\ rts[t].destroyed = 1

\* texture t has been constructed and not destroyed
Live(t) == rts[t].destroyed = 0

\* C10 as stated: no two RenderTextures that are constructed and not yet
\* destroyed carry the name of the same slot.
C10_NoTwoLiveWithOneName ==
    \A t1, t2 \in 1 .. Len(rts) :
        (t1 # t2 /\ Live(t1) /\ Live(t2)) => rts[t1].name # rts[t2].name

\* C10: two live RenderTextures carry the name of the same slot only when
\* at most one of them is in the stack, and the other has been taken out
\* of it with its destroy queued on the idle loop.
C10_OneNameOnlyWhileDestroyQueued ==
    \A t1, t2 \in 1 .. Len(rts) :
        (t1 # t2 /\ Live(t1) /\ Live(t2) /\ rts[t1].name = rts[t2].name) =>
            /\ ~(InStack(t1) /\ InStack(t2))
            /\ ~InStack(t1) => NumDestroyPending(t1) = 1
            /\ ~InStack(t2) => NumDestroyPending(t2) = 1

\* setAxes has replaced a texture by one of the same name, both live
C10_Reached ==
    \E t1, t2 \in 1 .. Len(rts) :
        /\ Live(t1) /\ Live(t2)
        /\ rts[t1].name = rts[t2].name
        /\ InStack(t2) /\ ~InStack(t1)

----------------------------------------------------------------------------
(* The mapping between Z positions and texture indices, under MapSpec *)

\* the last operation was a draw(zpos) on a stack of at least one texture
\* that returned
MapDrew == lastOp.name = "draw" /\ err = NoError /\ N >= 1

\* (zpos - zmin) / step, as the fraction MapNum / MapDen
MapNum == (lastOp.zpos - zmin) * N
MapDen == zmax - zmin

C12_EndsMapInside ==
    MapDrew =>
        /\ lastOp.zpos = zmin => lastOp.idx = 0
        /\ lastOp.zpos = zmax => lastOp.idx = N - 1
        /\ 100 * N * Abs(lastOp.zpos - zmin) < MapDen => lastOp.idx = 0
        /\ 100 * N * Abs(lastOp.zpos - zmax) < MapDen => lastOp.idx = N - 1

\* a draw just above zMax has been given the last of several textures
C12_Reached ==
    /\ MapDrew
    /\ N >= 2
    /\ lastOp.zpos > zmax
    /\ lastOp.idx = N - 1
    /\ DrewTexture

\* the rendering of the last operation: the Z position, times 2 * N, at
\* which __refreshTexture had the GLObject draw
RenderedAt == {glLog[i].arg : i \in {j \in 1 .. Len(glLog) :
                                       glLog[j].op = "globj.draw"}}

\* C13: a round trip stays within a slice: for a position p in
\* [zMin, zMax], the position of the texture that p maps to differs from p
\* by less than one step; the position of texture i is zMin + (i + 0.5) * step.
C13_RoundTripWithinAStep ==
    (MapDrew /\ zmin <= lastOp.zpos /\ lastOp.zpos <= zmax) =>
        \A z \in RenderedAt :
            /\ Abs(z - 2 * N * lastOp.zpos) < 2 * MapDen
            /\ z = 2 * N * zmin + (2 * lastOp.idx + 1) * MapDen

\* a draw at zMax itself has had the last of several textures rendered
C13_Reached ==
    /\ MapDrew
    /\ N >= 2
    /\ lastOp.zpos = zmax
    /\ RenderedAt # {}

----------------------------------------------------------------------------
(* The refresh loop, under LifecycleSpec and Spec *)

\* a step that is a call of __textureUpdateLoop
LoopStep ==
    /\ idleQueue # <<>>
    /\ Head(idleQueue) = LoopTask
    /\ lastOp'.name = "textureUpdateLoop"

\* a step that is a call of setAxes or onGLObjectUpdate
InvalidateStep == lastOp'.name \in {"setAxes", "onGLObjectUpdate"}

\* C14: the refresh loop stops by itself: a call of __textureUpdateLoop that
\* finds the update queue empty or no textures changes nothing and queues
\* nothing; a call queues itself again only if the update queue is not
\* empty after its pop; and unless setAxes or onGLObjectUpdate is called
\* again and again, from some point on no loop callback is queued.
C14_LoopStopsByItself ==
    /\ [][(LoopStep /\ (updateQueue = <<>> \/ textures = <<>>)) =>
             /\ idleQueue' = Tail(idleQueue)
             /\ glLog' = <<>> /\ err' = NoError
             /\ UNCHANGED <<textures, textureDirty, lastDrawnTexture,
                            updateQueue, axes, zmin, zmax, rts>>]_vars
    /\ [][LoopStep =>
             \/ idleQueue' = Tail(idleQueue)
             \/ /\ idleQueue' = Append(Tail(idleQueue), LoopTask)
                /\ updateQueue' # <<>>]_vars
    /\ \/ []<><<InvalidateStep>>_vars
       \/ <>[](PendingLoops(idleQueue) = 0)

\* the loop has rendered the last texture of its queue and has not queued
\* itself again
C14_Reached ==
    /\ lastOp.name = "textureUpdateLoop"
    /\ lastOp.attempt = "rendered"
    /\ N >= 2
    /\ updateQueue = <<>>
    /\ PendingLoops(idleQueue) = 0

\* C15: an invalidation marks every texture dirty and replaces the update
\* queue in one step: after a call of onGLObjectUpdate (or setAxes) that
\* returns, all N textures are dirty and the update queue is the new order
\* of length N, with nothing of the old queue kept, so that no texture that
\* was dirty before the call is clean after it.
C15_InvalidationReplacesQueue ==
    [][(InvalidateStep /\ err' = NoError) =>
          /\ Len(textureDirty') = Len(textures')
          /\ \A i \in 1 .. Len(textureDirty') : textureDirty'[i]
          /\ Len(updateQueue') = Len(textures')
          /\ updateQueue' = refreshOrder(lastDrawnTexture', Len(textures'))
          /\ lastOp'.name = "onGLObjectUpdate" =>
                 \A i \in 1 .. Len(textureDirty') :
                     (i <= Len(textureDirty) /\ textureDirty[i]) =>
                         textureDirty'[i]]_vars

\* onGLObjectUpdate has been called on a stack of several textures while a
\* loop callback of an earlier invalidation was still queued
C15_Reached ==
    /\ lastOp.name = "onGLObjectUpdate"
    /\ err = NoError
    /\ N >= 2
    /\ PendingLoops(idleQueue) >= 2
    /\ Len(updateQueue) = N

----------------------------------------------------------------------------
(* __refreshTexture, under Spec *)

\* the last operation called __refreshTexture on a dirty texture
RefreshAttempted ==
    /\ lastOp.name \in {"draw", "textureUpdateLoop"}
    /\ lastOp.wasDirty
    /\ lastOp.attempt # "none"

\* the operations of the last operation that resize, bind or render into a
\* texture
RenderOps ==
    {i \in 1 .. Len(glLog) :
        glLog[i].op \in {"setSize", "bindAsRenderTarget", "globj.draw",
                         "unbindAsRenderTarget"}}

\* C16: a refresh attempted while the GLObject's ready() is false is skipped
\* silently: nothing is raised, the texture is not resized, bound or
\* rendered into, the GLObject's preDraw/draw/postDraw are not called, and
\* the texture stays dirty.
C16_NotReadySkipsRefresh ==
    (RefreshAttempted /\ lastOp.attempt = "notReady") =>
        /\ err = NoError
        /\ RenderOps = {}
        /\ textureDirty[PyIndex(Len(textureDirty), lastOp.idx)]

\* the loop has attempted a refresh while the GLObject was not ready
C16_Reached ==
    /\ RefreshAttempted
    /\ lastOp.name = "textureUpdateLoop"
    /\ lastOp.attempt = "notReady"
    /\ N >= 2

\* C17: a failed resize is absorbed: when RenderTexture.setSize fails at
\* the requested size the refresh tries the default size once; if that
\* fails too the texture is left dirty, a draw of that slice draws nothing,
\* and nothing is raised from the refresh or the draw.
C17_SizeFailureAbsorbed ==
    (RefreshAttempted /\ lastOp.attempt = "sizeFails") =>
        /\ err = NoError
        /\ Cardinality({i \in 1 .. Len(glLog) : glLog[i].op = "setSize"}) = 2
        /\ textureDirty[PyIndex(Len(textureDirty), lastOp.idx)]
        /\ ~DrewTexture

----------------------------------------------------------------------------
(* draw outside the stack, under Spec *)

\* a step that is a call of draw
DrawStep == lastOp'.name = "draw"

\* C18: on a stack of N >= 1 textures, a draw whose position maps to an
\* index outside [0, N - 1] leaves the textures alone: nothing is
\* refreshed, no texture is drawn, and the dirty flags and the update queue
\* are as they were.
C18_DrawOutsideLeavesCache ==
    [][(DrawStep /\ N >= 1 /\ err' = NoError
                 /\ lastOp'.idx \notin 0 .. N - 1) =>
          /\ glLog' = <<>>
          /\ UNCHANGED <<textures, textureDirty, updateQueue>>]_vars

\* a draw below the range of a stack with a dirty texture has returned
C18_Reached ==
    /\ lastOp.name = "draw"
    /\ err = NoError
    /\ N >= 2
    /\ lastOp.idx < 0
    /\ \E i \in 1 .. Len(textureDirty) : textureDirty[i]
    /\ updateQueue # <<>>

----------------------------------------------------------------------------
(* The LookupTable, under LutSpec *)

\* value is the value of a label of the table
Present(value) == \E i \in 1 .. Len(labels) : LabelEq(labels[i], value)

\* C19: whatever insert, new and delete calls are made on a LookupTable
\* that starts empty, its labels are in strictly ascending order of value,
\* so that no two have the same value, and every value is an integer in
\* [0, 65535].
C19_LabelsAscendingInRange ==
    /\ \A i, j \in 1 .. Len(labels) :
           i < j => labels[i].twice < labels[j].twice
    /\ \A i \in 1 .. Len(labels) :
           /\ labels[i].kind = "int"
           /\ 0 <= labels[i].twice /\ labels[i].twice <= 2 * 65535

\* an insert has put a label between the smallest and the largest value
C19_Reached ==
    /\ lutOp.name = "insert"
    /\ lutErr = NoError
    /\ Len(labels) = 3
    /\ labels[1] = IntValue(0)
    /\ labels[2] = lutOp.value
    /\ labels[3] = IntValue(65535)

\* a step that is a call of insert, new or delete
LutStep == lutOp'.name \in {"insert", "new", "delete"}

\* C20: insert(value) raises ValueError when value is not an integer in
\* [0, 65535] or is already in the table, and otherwise does not; new()
\* raises it when max() + 1 is above 65535; delete(value) raises it when
\* value is not in the table, and otherwise does not.  A call that raises
\* leaves the labels and the saved flag as they were and notifies nobody.
C20_ValueErrorLeavesTable ==
    [][LutStep =>
          LET v == lutOp'.value
          IN  /\ lutOp'.name = "insert" =>
                     (lutErr' = "ValueError" <=>
                         \/ v.kind # "int"
                         \/ v.twice < 0 \/ v.twice > 2 * 65535
                         \/ Present(v))
              /\ lutOp'.name = "new" =>
                     (lutErr' = "ValueError" <=>
                         /\ labels # <<>>
                         /\ labels[Len(labels)].twice + 2 > 2 * 65535)
              /\ lutOp'.name = "delete" =>
                     (lutErr' = "ValueError" <=>
                         (v.kind = "None" \/ ~Present(v)))
              /\ lutErr' \in {NoError, "ValueError"}
              /\ lutErr' = "ValueError" =>
                     /\ UNCHANGED <<labels, saved>>
                     /\ notified' = <<>>]_vars

\* new() has raised ValueError on a saved table that holds 65535
C20_Reached ==
    /\ lutOp.name = "new"
    /\ lutErr = "ValueError"
    /\ saved
    /\ Len(labels) >= 2

----------------------------------------------------------------------------
(* The refresh order through the idle loop, under QueueSpec *)

\* the entries of queue q are in order of distance from index k
ByDistance(q, k) ==
    \A a, b \in 1 .. Len(q) : a < b => Abs(q[a] - k) <= Abs(q[b] - k)

\* C23: textures are refreshed nearest first: the update queue built by an
\* invalidation with last drawn index k in [0, N - 1] is in order of
\* nondecreasing distance |i - k|, each call of __textureUpdateLoop takes
\* the first entry of the queue and refreshes no other texture, and
\* nothing but an invalidation or the loop changes the queue.
C23_RefreshNearestFirst ==
    /\ [][(InvalidateStep /\ err' = NoError /\ lastDrawnTexture # None
                           /\ lastDrawnTexture[1] \in 0 .. Len(textures') - 1) =>
              ByDistance(updateQueue', lastDrawnTexture[1])]_vars
    /\ [][(LoopStep /\ updateQueue # <<>> /\ textures # <<>>) =>
              /\ updateQueue' = Tail(updateQueue)
              /\ lastOp'.idx = Head(updateQueue)
              /\ \A i \in 1 .. Len(glLog') :
                     glLog'[i].tex = textures[PyIndex(N, Head(updateQueue))]]_vars
    /\ [][(~InvalidateStep /\ ~LoopStep) => UNCHANGED updateQueue]_vars

\* the loop has refreshed the texture farthest from the last drawn index,
\* the last of a queue built after a draw in the middle of the stack
C23_Reached ==
    /\ lastOp.name = "textureUpdateLoop"
    /\ lastOp.attempt = "rendered"
    /\ N >= 4
    /\ updateQueue = <<>>
    /\ lastDrawnTexture \in {<<1>>, <<2>>}
    /\ lastOp.idx \in {0, N - 1}
    /\ sinceRefreshAll.undisturbed

\* the slot of the stack that queue entry or index i addresses
SlotOf(i) == PyIndex(N, i)

\* C24: a call of __textureUpdateLoop that finds the GLObject not ready
\* still uses up its queue entry: the texture stays dirty and its slot is
\* no longer in the update queue.  As the loop refreshes nothing but the
\* first entry of the queue, and entries are added by an invalidation only,
\* no later call of the loop refreshes that texture before the next
\* invalidation, whether the GLObject is ready by then or not.
C24_NotReadyUsesUpEntry ==
    /\ [][(LoopStep /\ lastOp'.attempt = "notReady") =>
              /\ updateQueue' = Tail(updateQueue)
              /\ textureDirty'[SlotOf(lastOp'.idx)]
              /\ \A j \in 1 .. Len(updateQueue') :
                     ValidIndex(N, updateQueue'[j]) =>
                         SlotOf(updateQueue'[j]) # SlotOf(lastOp'.idx)]_vars
    /\ [][(LoopStep /\ lastOp'.attempt = "rendered") =>
              /\ updateQueue # <<>>
              /\ lastOp'.idx = Head(updateQueue)]_vars
    /\ [][~InvalidateStep =>
              \A j \in 1 .. Len(updateQueue') :
                  \E i \in 1 .. Len(updateQueue) :
                      updateQueue'[j] = updateQueue[i]]_vars

\* the loop has refreshed a texture, the GLObject being ready, while a
\* texture it found the GLObject not ready for is dirty and out of the queue
C24_Reached ==
    /\ lastOp.name = "textureUpdateLoop"
    /\ lastOp.attempt = "rendered"
    /\ ~sinceRefreshAll.allReady
    /\ N >= 3
    /\ \E s \in 1 .. N :
           /\ textureDirty[s]
           /\ \A j \in 1 .. Len(updateQueue) :
                  ValidIndex(N, updateQueue[j]) => SlotOf(updateQueue[j]) # s

----------------------------------------------------------------------------
(* The stack without textures and its queue, under Spec *)

\* C25: on a stack that holds no texture, after destroy() and before the
\* next setAxes, draw(zpos) returns normally and does nothing: it raises
\* nothing, refreshes nothing and draws no texture.
C25_DrawOnEmptyStackReturns ==
    (lastOp.name = "draw" /\ axes # None /\ N = 0) =>
        /\ err = NoError
        /\ glLog = <<>>

\* C26: in every reachable state every entry of the update queue is an
\* index in [0, N - 1] for the current number N of textures, so that no call
\* of __textureUpdateLoop indexes the dirty flags or the textures out of
\* range.
C26_QueueHoldsValidIndices ==
    /\ \A j \in 1 .. Len(updateQueue) : updateQueue[j] \in 0 .. N - 1
    /\ lastOp.name = "textureUpdateLoop" => err # "IndexError"

\* C27: a texture that is not dirty holds its own slice: a refresh renders
\* the texture of slot i, with i in [0, N - 1], at the position
\* zMin + (i + 0.5) * step of that slot and at no other before it marks it
\* clean.
C27_RefreshRendersOwnSlice ==
    (RefreshAttempted /\ lastOp.attempt = "rendered") =>
        /\ lastOp.idx \in 0 .. N - 1
        /\ ~textureDirty[SlotOf(lastOp.idx)]
        /\ RenderedAt =
               {2 * N * zmin + (2 * (SlotOf(lastOp.idx) - 1) + 1) * (zmax - zmin)}

\* C28: no dirty texture is left without a refresh to come: with the
\* GLObject ready at every refresh attempted, in every reachable state in
\* which the stack holds textures, the index of every dirty texture is in
\* the update queue, and a loop callback is queued whenever the update
\* queue is not empty.
C28_DirtyMeansQueued ==
    (sinceRefreshAll.allReady /\ N >= 1) =>
        /\ \A i \in 1 .. Len(textureDirty) :
               textureDirty[i] =>
                   \E j \in 1 .. Len(updateQueue) : updateQueue[j] = i - 1
        /\ updateQueue # <<>> => PendingLoops(idleQueue) >= 1

----------------------------------------------------------------------------
(* Saving and loading the LookupTable, under LutSpec *)

\* C29: saving and loading again gives the same labels: for a table built
\* by insert, new and delete, with any values in [0, 65535], save(file)
\* followed by LookupTable(key, name, file) succeeds and the new table
\* holds the same label values in the same order.
C29_SaveLoadKeepsLabels ==
    (lutOp.name = "load" /\ saved) =>
        /\ loaded.err = NoError
        /\ loaded.labels = labels

\* C21: at most one chain of movie-frame updates is scheduled at any time,
\* and a startMovie callback that finds the loop running changes nothing
\* of the loop: no frame is shown and nothing is scheduled
C21_OneMovieLoop ==
    /\ [](Chains <= 1)
    /\ [][(movieOp'.name = "startMovie" /\ movieRunning) =>
              /\ movieIdle' = [movieIdle EXCEPT !.start = @ - 1]
              /\ UNCHANGED <<movieRunning, volume, voxel>>]_vars

\* a start request was made while a chain was scheduled, and the chain is
\* still the only one
C21_Reached ==
    /\ movieOp.name = "startMovie"
    /\ movieOp.wasRunning
    /\ Chains = 1

\* C22: every endChangeGroup call ends a change group that the mouse-down
\* handler of the same press started on the same Editor, and which is
\* still open
C22_EndMatchesStart ==
    (editOp.name = "mouseUp" /\ editOp.editor # None) =>
        /\ editOp.started = editOp.editor
        /\ editOp.open > 0

\* the listeners the panel should have: on name and overlayType of the
\* Display of the selected overlay, and on the _optProps properties of its
\* DisplayOpts
ListenersOf(overlay) ==
    {OnDisplay(overlay, "name"), OnDisplay(overlay, "overlayType")}
      \cup (IF HasOptProps(overlay)
            THEN {OnOpts(overlay, optsGen[overlay], p) :
                      p \in optProps[InfoType(overlay)]}
            ELSE {})

\* C30: the listeners of the panel are those on the Display and DisplayOpts
\* of the selected overlay and no others; there are none when no overlay is
\* selected, and none after destroy()
C30_ListenersBalanced ==
    infoListeners =
        IF infoDestroyed \/ infoSelected = None THEN {}
        ELSE ListenersOf(infoSelected[1])

====
